---- MODULE Spec2Model ----
(***************************************************************************)
(* Model of src/vs/workbench/api/node/extHostWorkspace.ts: the extension   *)
(* host's copy of the workspace folders (Workspace2 / ExtHostWorkspace),   *)
(* its optimistic updateWorkspaceFolders and the authoritative             *)
(* $acceptWorkspaceData push.                                              *)
(*                                                                         *)
(* Strings are sequences of character codes ("/" = 47, "A" = 65,           *)
(* "a" = 97, "b" = 98) so that compare() is the code-unit order JavaScript *)
(* uses.  A URI is a file URI and is represented by its path; toString     *)
(* puts the "file://" prefix in front of it.  A value that is not a URI,   *)
(* and a name that was not given, are the empty sequence.                  *)
(***************************************************************************)
EXTENDS Integers, Sequences, FiniteSets, TLC

VARIABLES
    isLinux,      \* vs/base/common/platform isLinux, fixed per process
    workspace,    \* ExtHostWorkspace._workspace (present = FALSE: null)
    unconfirmed,  \* accepted optimistic edits since the last authoritative push
    op,           \* handler that has just returned ("none": back in the event loop)
    args,         \* its arguments
    ret,          \* its return value (updateWorkspaceFolders only)
    old,          \* _workspace as it was when the handler was entered
    sent,         \* messages the handler sent to _proxy
    fired,        \* events the handler fired on _onDidChangeWorkspace
    proposed,     \* some $updateWorkspaceFolders promise is not settled yet
    unexpected,   \* errors the handler passed to onUnexpectedError
    found,        \* the folder a lookup returned: a set, empty for undefined
    requestIdPool,\* the static ExtHostWorkspace._requestIdPool
    searches,     \* the findFiles calls made, in order: id, proxy, token
    cancelled,    \* the cancellation tokens that were cancelled
    timers,       \* ids whose cancel callback waits for its timer
    subscribed,   \* a listener of onDidChangeWorkspace keeps the folder URIs
    mirror        \* the folder URIs that listener holds

searchVars == <<requestIdPool, searches, cancelled, timers>>

vars == <<isLinux, workspace, unconfirmed, op, args, ret, old, sent, fired,
          proposed, unexpected, found, searchVars, subscribed, mirror>>

----------------------------------------------------------------------------
(* Bounds *)

MaxFolders == 2       \* folders in an authoritative snapshot
MaxAdd == 2           \* entries in workspaceFoldersToAdd
MaxIndex == 1         \* largest index / deleteCount argument
MaxUnconfirmed == 1   \* optimistic edits between two authoritative pushes
MaxLength == 2        \* folders in the local list after an optimistic edit
MaxSearches == 2      \* findFiles calls in one behaviour

----------------------------------------------------------------------------
(* Input universe *)

NotAUri == <<>>
NoName == <<>>
Uris == { <<47, 65>>, <<47, 97>>, <<47, 98>> }

Range(s) == { s[i] : i \in 1..Len(s) }

SeqsUpTo(S, n) == UNION { [1..k -> S] : k \in 0..n }

----------------------------------------------------------------------------
(* Library functions used by the file *)

RECURSIVE compare(_, _)
compare(a, b) ==
    IF a = <<>> /\ b = <<>> THEN 0
    ELSE IF a = <<>> THEN -1
    ELSE IF b = <<>> THEN 1
    ELSE IF Head(a) < Head(b) THEN -1
    ELSE IF Head(a) > Head(b) THEN 1
    ELSE compare(Tail(a), Tail(b))

toLowerCase(s) == [ i \in 1..Len(s) |-> IF s[i] >= 65 /\ s[i] <= 90 THEN s[i] + 32 ELSE s[i] ]

toString(uri) == <<102, 105, 108, 101, 58, 47, 47>> \o uri

isUri(thing) == thing # NotAUri

isEqual(first, second, ignoreCase) ==
    IF ignoreCase THEN toLowerCase(toString(first)) = toLowerCase(toString(second))
    ELSE toString(first) = toString(second)

isSep(c) == c = 47 \/ c = 92

\* the non-empty segments of a path-like string, in order
RECURSIVE segments(_)
segments(s) ==
    IF s = <<>> THEN <<>>
    ELSE IF isSep(Head(s)) THEN segments(Tail(s))
    ELSE LET stop == IF \E i \in 1..Len(s) : isSep(s[i])
                     THEN (CHOOSE i \in 1..Len(s) : isSep(s[i]) /\ \A j \in 1..(i-1) : ~isSep(s[j])) - 1
                     ELSE Len(s)
         IN <<SubSeq(s, 1, stop)>> \o segments(SubSeq(s, stop + 1, Len(s)))

basenameOrAuthority(uri) ==
    LET segs == segments(uri) IN IF segs = <<>> THEN <<>> ELSE segs[Len(segs)]

dirname(path) ==
    LET lastSep == IF \E i \in 1..Len(path) : path[i] = 47
                   THEN CHOOSE i \in 1..Len(path) : path[i] = 47 /\ \A j \in (i+1)..Len(path) : path[j] # 47
                   ELSE 0
    IN IF lastSep = 0 THEN <<46>>
       ELSE IF lastSep = 1 THEN <<47>>
       ELSE SubSeq(path, 1, lastSep - 1)

\* the two comparators of ExtHostWorkspace; a comparator is passed to delta
\* and sort by name
compareWorkspaceFolderByUri(a, b) ==
    compare(toString(a.uri), toString(b.uri))

compareWorkspaceFolderByUriAndName(a, b) ==
    compare(toString(a.uri), toString(b.uri)) + compare(a.name, b.name)

call(cmp, a, b) ==
    IF cmp = "_compareWorkspaceFolderByUri" THEN compareWorkspaceFolderByUri(a, b)
    ELSE compareWorkspaceFolderByUriAndName(a, b)

\* arrays.delta: merge of two lists under a comparator
RECURSIVE delta(_, _, _)
delta(before, after, cmp) ==
    IF before = <<>> THEN [removed |-> <<>>, added |-> after]
    ELSE IF after = <<>> THEN [removed |-> before, added |-> <<>>]
    ELSE LET n == call(cmp, Head(before), Head(after)) IN
         IF n = 0 THEN delta(Tail(before), Tail(after), cmp)
         ELSE IF n < 0
              THEN LET r == delta(Tail(before), after, cmp)
                   IN [removed |-> <<Head(before)>> \o r.removed, added |-> r.added]
              ELSE LET r == delta(before, Tail(after), cmp)
                   IN [removed |-> r.removed, added |-> <<Head(after)>> \o r.added]

\* Array.prototype.sort on a short array: insertion sort, stable
RECURSIVE insertSorted(_, _, _)
insertSorted(x, s, cmp) ==
    IF s = <<>> THEN <<x>>
    ELSE IF call(cmp, s[Len(s)], x) > 0
         THEN insertSorted(x, SubSeq(s, 1, Len(s) - 1), cmp) \o <<s[Len(s)]>>
         ELSE s \o <<x>>

RECURSIVE sort(_, _)
sort(s, cmp) ==
    IF s = <<>> THEN <<>>
    ELSE insertSorted(s[Len(s)], sort(SubSeq(s, 1, Len(s) - 1), cmp), cmp)

isPrefix(p, q) == Len(p) <= Len(q) /\ SubSeq(q, 1, Len(p)) = p

\* TernarySearchTree.forPaths: set / get / findSubstr
structureOf(folders) ==
    [ k \in { toString(folders[i].uri) : i \in 1..Len(folders) } |->
        folders[CHOOSE i \in 1..Len(folders) :
                    /\ toString(folders[i].uri) = k
                    /\ \A j \in (i+1)..Len(folders) : toString(folders[j].uri) # k] ]

structureGet(structure, key) ==
    IF key \in DOMAIN structure THEN {structure[key]} ELSE {}

findSubstr(structure, key) ==
    LET cands == { k \in DOMAIN structure : isPrefix(segments(k), segments(key)) } IN
    IF cands = {} THEN {}
    ELSE { structure[CHOOSE k \in cands : \A k2 \in cands : Len(segments(k2)) <= Len(segments(k))] }

----------------------------------------------------------------------------
(* Workspace2 *)

NullWorkspace == [present |-> FALSE, folders |-> <<>>, workspaceFolders |-> <<>>, structure |-> <<>>]

\* fromData as it would be if the folder array were sorted where it is stored
fromData_sorted(data) ==
    IF ~data.present THEN NullWorkspace
    ELSE [present |-> TRUE,
          folders |-> data.folders,
          workspaceFolders |-> sort(data.folders, "_compareWorkspaceFolderByUri"),
          structure |-> structureOf(data.folders)]

fromData(data) ==
    IF ~data.present THEN NullWorkspace
    ELSE [present |-> TRUE,
          folders |-> data.folders,
          workspaceFolders |-> data.folders,
          structure |-> structureOf(data.folders)]

\* trySetWorkspaceFolders as it would be if the new list were dropped
trySetWorkspaceFolders_dropped(ws, folders) ==
    ws

trySetWorkspaceFolders(ws, folders) ==
    [ws EXCEPT !.workspaceFolders = folders]

\* getWorkspaceFolder as it would be if it looked the parent directory up
\* whatever resolveParent says
Workspace2_getWorkspaceFolder_parentAlways(ws, uri, resolveParent) ==
    IF structureGet(ws.structure, toString(uri)) # {}
    THEN findSubstr(ws.structure, toString(dirname(uri)))
    ELSE findSubstr(ws.structure, toString(uri))

\* the result is a set: empty for undefined, else the one folder found
Workspace2_getWorkspaceFolder(ws, uri, resolveParent) ==
    IF resolveParent /\ structureGet(ws.structure, toString(uri)) # {}
    THEN findSubstr(ws.structure, toString(dirname(uri)))
    ELSE findSubstr(ws.structure, toString(uri))

----------------------------------------------------------------------------
(* ExtHostWorkspace: queries *)

getWorkspaceFolders(ws) ==
    IF ~ws.present THEN [defined |-> FALSE, folders |-> <<>>]
    ELSE [defined |-> TRUE, folders |-> ws.workspaceFolders]

getWorkspaceFolder(ws, uri, resolveParent) ==
    IF ~ws.present THEN {}
    ELSE Workspace2_getWorkspaceFolder(ws, uri, resolveParent)

\* URI.fsPath of a file URI on a posix platform: the path, which is what
\* stands for the URI here
fsPath(uri) == uri

\* the result is a set: empty for undefined
getPath(ws) ==
    IF ~ws.present THEN {}
    ELSE IF Len(ws.folders) = 0 THEN {}
    ELSE { fsPath(ws.folders[1].uri) }

RECURSIVE join(_)
join(segs) ==
    IF segs = <<>> THEN <<>>
    ELSE IF Len(segs) = 1 THEN segs[1]
    ELSE segs[1] \o <<47>> \o join(Tail(segs))

RECURSIVE commonLength(_, _)
commonLength(a, b) ==
    IF a = <<>> \/ b = <<>> \/ Head(a) # Head(b) THEN 0
    ELSE 1 + commonLength(Tail(a), Tail(b))

\* path.relative of two absolute posix paths: up from the first, then down
\* to the second
relative(from, to) ==
    LET f == segments(from)
        t == segments(to)
        c == commonLength(f, t)
    IN join([ i \in 1..(Len(f) - c) |-> <<46, 46>> ] \o SubSeq(t, c + 1, Len(t)))

\* paths.normalize(path, true) of a relative posix path without '.' or '..'
\* segments to resolve: separators are made single
normalize(path) ==
    IF \E i \in 1..Len(segments(path)) : segments(path)[i] \in { <<46>>, <<46, 46>> }
    THEN path
    ELSE join(segments(path))

\* pathOrUri is a path string; includeWorkspace is a set, empty for
\* undefined; the result is the string returned
getRelativePath(ws, path, includeWorkspace) ==
    IF path = <<>> THEN path
    ELSE LET folder == getWorkspaceFolder(ws, path, TRUE) IN
         IF folder = {} THEN path
         ELSE LET f == CHOOSE g \in folder : TRUE
                  include == IF includeWorkspace = {} THEN Len(ws.folders) > 1
                             ELSE TRUE \in includeWorkspace
                  result == relative(fsPath(f.uri), path)
              IN normalize(IF include THEN f.name \o <<47>> \o result ELSE result)

----------------------------------------------------------------------------
(* ExtHostWorkspace.updateWorkspaceFolders *)

\* validatedDistinctWorkspaceFoldersToAdd as it would be without the
\* comparison with the entries already kept
validatedDistinctWorkspaceFoldersToAdd_all(toAdd, linux) ==
    SelectSeq(toAdd, LAMBDA folderToAdd : isUri(folderToAdd.uri))

RECURSIVE validatedDistinctWorkspaceFoldersToAdd(_, _)
validatedDistinctWorkspaceFoldersToAdd(toAdd, linux) ==
    IF toAdd = <<>> THEN <<>>
    ELSE LET acc == validatedDistinctWorkspaceFoldersToAdd(SubSeq(toAdd, 1, Len(toAdd) - 1), linux)
             folderToAdd == toAdd[Len(toAdd)]
         IN IF isUri(folderToAdd.uri)
               /\ ~\E i \in 1..Len(acc) : isEqual(acc[i].uri, folderToAdd.uri, ~linux)
            THEN acc \o <<folderToAdd>>
            ELSE acc

currentWorkspaceFolders(ws) ==
    IF ws.present THEN ws.workspaceFolders ELSE <<>>

\* the entries spliced in: name defaults to the basename, index is the
\* position in the list of additions
foldersToSplice(distinct) ==
    [ i \in 1..Len(distinct) |->
        [uri |-> distinct[i].uri,
         name |-> IF distinct[i].name # NoName THEN distinct[i].name
                  ELSE basenameOrAuthority(distinct[i].uri),
         index |-> i - 1] ]

Min(a, b) == IF a < b THEN a ELSE b

Max(a, b) == IF a > b THEN a ELSE b

\* Array.prototype.splice: start and deleteCount are clamped to the array
splice(list, index, deleteCount, items) ==
    LET start == IF index < 0 THEN Max(Len(list) + index, 0) ELSE Min(index, Len(list))
        count == Min(Max(deleteCount, 0), Len(list) - start)
    IN SubSeq(list, 1, start) \o items \o SubSeq(list, start + count + 1, Len(list))

newWorkspaceFolders(current, index, deleteCount, distinct) ==
    splice(current, index, deleteCount, foldersToSplice(distinct))

\* invalidNumbers as it would be if only the index were validated
invalidNumbers_indexOnly(index, deleteCount) ==
    index < 0

\* the three validations, in the order the method makes them
invalidNumbers(index, deleteCount) ==
    index < 0 \/ deleteCount < 0

nothingToDeleteOrAdd(deleteCount, distinct) ==
    deleteCount = 0 /\ Len(distinct) = 0

cannotDeleteMoreThanWeHave(index, deleteCount, current) ==
    index + deleteCount > Len(current)

nothingActuallyChanged(current, new) ==
    LET d == delta(current, new, "_compareWorkspaceFolderByUriAndName")
    IN Len(d.added) = 0 /\ Len(d.removed) = 0

Rejected(ws) == [ret |-> FALSE, workspace |-> ws, sent |-> <<>>]

\* the proxy call as it would be with index and deleteCount in each other's
\* place
updateWorkspaceFoldersMessage_swapped(extensionName, index, deleteCount, distinct) ==
    [method |-> "$updateWorkspaceFolders",
     extensionName |-> extensionName,
     index |-> deleteCount,
     deleteCount |-> index,
     folders |-> distinct]

\* this._proxy.$updateWorkspaceFolders(extensionName, index, deleteCount,
\* validatedDistinctWorkspaceFoldersToAdd)
updateWorkspaceFoldersMessage(extensionName, index, deleteCount, distinct) ==
    [method |-> "$updateWorkspaceFolders",
     extensionName |-> extensionName,
     index |-> index,
     deleteCount |-> deleteCount,
     folders |-> distinct]

updateWorkspaceFoldersResult(ws, linux, extensionName, index, deleteCount, toAdd) ==
    LET distinct == validatedDistinctWorkspaceFoldersToAdd(toAdd, linux)
        current == currentWorkspaceFolders(ws)
        new == newWorkspaceFolders(current, index, deleteCount, distinct)
    IN IF invalidNumbers(index, deleteCount) THEN Rejected(ws)
       ELSE IF nothingToDeleteOrAdd(deleteCount, distinct) THEN Rejected(ws)
       ELSE IF cannotDeleteMoreThanWeHave(index, deleteCount, current) THEN Rejected(ws)
       ELSE IF nothingActuallyChanged(current, new) THEN Rejected(ws)
       ELSE [ret |-> TRUE,
             workspace |-> IF ws.present THEN trySetWorkspaceFolders(ws, new) ELSE ws,
             sent |-> << updateWorkspaceFoldersMessage(extensionName, index, deleteCount, distinct) >>]

----------------------------------------------------------------------------
(* ExtHostWorkspace.$acceptWorkspaceData *)

oldRoots(ws) ==
    IF ws.present THEN sort(ws.workspaceFolders, "_compareWorkspaceFolderByUri") ELSE <<>>

newRoots(ws) ==
    IF ws.present THEN sort(ws.workspaceFolders, "_compareWorkspaceFolderByUri") ELSE <<>>

\* the handler as it would be if it fired the additions and the removals
\* as two events
acceptWorkspaceDataFired_split(ws, data) ==
    LET d == delta(oldRoots(ws), newRoots(fromData(data)), "_compareWorkspaceFolderByUri")
    IN << [added |-> d.added, removed |-> <<>>], [added |-> <<>>, removed |-> d.removed] >>

acceptWorkspaceDataFired(ws, data) ==
    LET d == delta(oldRoots(ws), newRoots(fromData(data)), "_compareWorkspaceFolderByUri")
    IN << [added |-> d.added, removed |-> d.removed] >>

\* the rejection handler as it would be if it rolled the local list back
onRejected_rollback(ws) ==
    IF ws.present THEN [ws EXCEPT !.workspaceFolders = ws.folders] ELSE ws

\* what then(null, onUnexpectedError) does to _workspace on a rejection
onRejected(ws) ==
    ws

\* the identifiers of a folder list
identifiers(folders) == { toString(folders[i].uri) : i \in 1..Len(folders) }

\* a listener of onDidChangeWorkspace that keeps the set of folder URIs:
\* for each event it adds the added ones and drops the removed ones
RECURSIVE applyEvents(_, _)
applyEvents(held, events) ==
    IF events = <<>> THEN held
    ELSE applyEvents((held \cup identifiers(Head(events).added))
                        \ identifiers(Head(events).removed),
                     Tail(events))

----------------------------------------------------------------------------
(* ExtHostWorkspace.findFiles *)

\* _requestIdPool++ as it would be if the pool were left as it is
requestIdPoolAfter_same(pool) == pool

\* the pool after _requestIdPool++
requestIdPoolAfter(pool) == pool + 1

startSearch(instance, requestId) ==
    [method |-> "$startSearch", instance |-> instance, requestId |-> requestId]

\* the listener as it would be if it read the pool when it runs
cancelSearch_latest(search, pool) ==
    [method |-> "$cancelSearch", instance |-> search.instance, requestId |-> pool - 1]

\* what the listener () => this._proxy.$cancelSearch(requestId) of a call
\* sends: requestId is the constant of that call
cancelSearch(search, pool) ==
    [method |-> "$cancelSearch", instance |-> search.instance, requestId |-> search.requestId]

\* the listeners registered on a token, in the order of registration
RECURSIVE listeners(_, _)
listeners(token, calls) ==
    IF calls = <<>> THEN <<>>
    ELSE (IF Head(calls).token = token THEN <<Head(calls)>> ELSE <<>>)
         \o listeners(token, Tail(calls))

----------------------------------------------------------------------------
(* Inputs *)

ExtensionName == "ext"

IndexArgs == -1..MaxIndex

\* entries of workspaceFoldersToAdd: something that is not a URI, a folder
\* with a name, and a folder to be named after its basename
AddEntries ==
    { [uri |-> NotAUri, name |-> NoName],
      [uri |-> <<47, 65>>, name |-> <<98>>],
      [uri |-> <<47, 97>>, name |-> NoName] }

AddLists == SeqsUpTo(AddEntries, MaxAdd)

\* the authority names a folder after its basename
DataName(u) == basenameOrAuthority(u)

\* authoritative folder lists of length n: index = position
RECURSIVE DataFolderLists(_)
DataFolderLists(n) ==
    IF n = 0 THEN { <<>> }
    ELSE { fs \o << [uri |-> u, name |-> DataName(u), index |-> Len(fs)] >> :
             fs \in DataFolderLists(n - 1), u \in Uris }

\* no two folders of a snapshot are equal on the platform
WellFormedData(fs, linux) ==
    \A i, j \in 1..Len(fs) : i # j => ~isEqual(fs[i].uri, fs[j].uri, ~linux)

NoData == [present |-> FALSE, folders |-> <<>>]

DatasOn(linux) ==
    {NoData} \cup { [present |-> TRUE, folders |-> fs] :
                     fs \in { gs \in UNION { DataFolderLists(n) : n \in 0..MaxFolders } :
                                WellFormedData(gs, linux) } }

DatasLinux == DatasOn(TRUE)

DatasOther == DatasOn(FALSE)

Datas(linux) == IF linux THEN DatasLinux ELSE DatasOther

NoArgs ==
    [index |-> 0, deleteCount |-> 0, toAdd |-> <<>>, data |-> NoData,
     uri |-> NotAUri, resolveParent |-> FALSE]

\* folder URIs and queried URIs of the lookups: the root, a folder, a folder
\* inside it, a sibling whose path begins with the same characters, and
\* paths below them
LookupUris == { <<47>>, <<47, 97>>, <<47, 97, 47, 98>>, <<47, 97, 98>> }

\* the ExtHostWorkspace instances of the process
Instances == {"a", "b"}

\* cancellation tokens; NoToken is the token argument left out
Tokens == {"t", "u"}

NoToken == "none"

\* paths asked of getRelativePath: inside the folders an authority or an
\* extension can name
RelativeQueries == { <<47, 97, 47, 98>>, <<47, 65, 47, 97>>, <<47, 98, 47, 97>> }

LookupQueries ==
    LookupUris \cup { <<47, 97, 47, 97>>, <<47, 97, 47, 98, 47, 97>>, <<47, 97, 98, 47, 98>> }

RECURSIVE LookupFolderLists(_)
LookupFolderLists(n) ==
    IF n = 0 THEN { <<>> }
    ELSE { fs \o << [uri |-> u, name |-> DataName(u), index |-> Len(fs)] >> :
             fs \in LookupFolderLists(n - 1), u \in LookupUris }

LookupDatas ==
    {NoData} \cup { [present |-> TRUE, folders |-> fs] :
                     fs \in { gs \in UNION { LookupFolderLists(n) : n \in 0..MaxFolders } :
                                WellFormedData(gs, FALSE) } }

----------------------------------------------------------------------------
(* Specification *)

Init ==
    /\ isLinux \in BOOLEAN
    /\ \E data \in Datas(isLinux) : workspace = fromData(data)
    /\ unconfirmed = 0
    /\ op = "none"
    /\ args = NoArgs
    /\ ret = FALSE
    /\ old = NullWorkspace
    /\ sent = <<>>
    /\ fired = <<>>
    /\ proposed = FALSE
    /\ unexpected = <<>>
    /\ found = {}
    /\ requestIdPool = 0
    /\ searches = <<>>
    /\ cancelled = {}
    /\ timers = {}
    /\ subscribed = FALSE
    /\ mirror = {}

\* an accepted edit counts as unconfirmed until the next push; the two
\* guards on r.ret only keep the local list within the bounds
updateWorkspaceFolders ==
    /\ op = "none"
    /\ \E index \in IndexArgs, deleteCount \in IndexArgs, toAdd \in AddLists :
       \E r \in {updateWorkspaceFoldersResult(workspace, isLinux, ExtensionName, index, deleteCount, toAdd)} :
         /\ r.ret => unconfirmed < MaxUnconfirmed
         /\ r.ret => Len(r.workspace.workspaceFolders) <= MaxLength
         /\ workspace' = r.workspace
         /\ unconfirmed' = IF r.ret THEN unconfirmed + 1 ELSE unconfirmed
         /\ op' = "updateWorkspaceFolders"
         /\ args' = [NoArgs EXCEPT !.index = index, !.deleteCount = deleteCount, !.toAdd = toAdd]
         /\ ret' = r.ret
         /\ old' = workspace
         /\ sent' = r.sent
         /\ fired' = <<>>
         /\ proposed' = (proposed \/ r.ret)
    /\ unexpected' = <<>>
    /\ found' = {}
    /\ UNCHANGED <<searchVars, subscribed, mirror>>
    /\ UNCHANGED isLinux

acceptWorkspaceData ==
    /\ op = "none"
    /\ \E data \in Datas(isLinux) :
         /\ workspace' = fromData(data)
         /\ unconfirmed' = 0
         /\ op' = "$acceptWorkspaceData"
         /\ args' = [NoArgs EXCEPT !.data = data]
         /\ ret' = FALSE
         /\ old' = workspace
         /\ sent' = <<>>
         /\ fired' = acceptWorkspaceDataFired(workspace, data)
         /\ mirror' = IF subscribed
                       THEN applyEvents(mirror, acceptWorkspaceDataFired(workspace, data))
                       ELSE mirror
    /\ unexpected' = <<>>
    /\ found' = {}
    /\ UNCHANGED <<searchVars, subscribed>>
    /\ UNCHANGED <<isLinux, proposed>>

\* the promise of a $updateWorkspaceFolders call is rejected: the second
\* argument of then() runs; other promises of the kind may remain
updateWorkspaceFoldersRejected ==
    /\ op = "none"
    /\ proposed
    /\ proposed' \in BOOLEAN
    /\ workspace' = onRejected(workspace)
    /\ op' = "onUnexpectedError"
    /\ args' = NoArgs
    /\ ret' = FALSE
    /\ old' = workspace
    /\ sent' = <<>>
    /\ fired' = <<>>
    /\ unexpected' = <<"rejected">>
    /\ found' = {}
    /\ UNCHANGED <<searchVars, subscribed, mirror>>
    /\ UNCHANGED <<isLinux, unconfirmed>>

\* the promise is fulfilled: then(null, ...) has nothing to run
updateWorkspaceFoldersFulfilled ==
    /\ op = "none"
    /\ proposed
    /\ proposed' \in BOOLEAN
    /\ op' = "fulfilled"
    /\ args' = NoArgs
    /\ ret' = FALSE
    /\ old' = workspace
    /\ sent' = <<>>
    /\ fired' = <<>>
    /\ unexpected' = <<>>
    /\ found' = {}
    /\ UNCHANGED <<searchVars, subscribed, mirror>>
    /\ UNCHANGED <<isLinux, workspace, unconfirmed>>

\* the handler's frame is gone; control is back in the event loop
return ==
    /\ op # "none"
    /\ op' = "none"
    /\ args' = NoArgs
    /\ ret' = FALSE
    /\ old' = NullWorkspace
    /\ sent' = <<>>
    /\ fired' = <<>>
    /\ unexpected' = <<>>
    /\ found' = {}
    /\ UNCHANGED <<searchVars, subscribed, mirror>>
    /\ UNCHANGED <<isLinux, workspace, unconfirmed, proposed>>

\* no workspace is open; searches do not read it
InitSearch ==
    /\ isLinux \in BOOLEAN
    /\ workspace = fromData(NoData)
    /\ unconfirmed = 0
    /\ op = "none"
    /\ args = NoArgs
    /\ ret = FALSE
    /\ old = NullWorkspace
    /\ sent = <<>>
    /\ fired = <<>>
    /\ proposed = FALSE
    /\ unexpected = <<>>
    /\ found = {}
    /\ requestIdPool = 0
    /\ searches = <<>>
    /\ cancelled = {}
    /\ timers = {}
    /\ subscribed = FALSE
    /\ mirror = {}

\* what every step of the search part leaves alone or clears
searchFrame(name) ==
    /\ op' = name
    /\ args' = NoArgs
    /\ ret' = FALSE
    /\ old' = workspace
    /\ fired' = <<>>
    /\ unexpected' = <<>>
    /\ found' = {}
    /\ UNCHANGED <<isLinux, workspace, unconfirmed, proposed, subscribed, mirror>>

\* findFiles on one of the ExtHostWorkspace instances of the process, with
\* or without a token; on a token already cancelled the listener is run by
\* a timer
findFiles ==
    /\ op = "none"
    /\ Len(searches) < MaxSearches
    /\ \E instance \in Instances, token \in Tokens \cup {NoToken} :
         LET requestId == requestIdPool IN
         /\ requestIdPool' = requestIdPoolAfter(requestIdPool)
         /\ sent' = << startSearch(instance, requestId) >>
         /\ searches' = Append(searches,
                [requestId |-> requestId, instance |-> instance, token |-> token, settled |-> FALSE])
         /\ timers' = IF token \in cancelled THEN timers \cup {Len(searches) + 1} ELSE timers
    /\ searchFrame("findFiles")
    /\ UNCHANGED cancelled

\* the owner of a token cancels it: the listeners run in order
cancel ==
    /\ op = "none"
    /\ \E token \in Tokens \ cancelled :
         /\ cancelled' = cancelled \cup {token}
         /\ sent' = LET ls == listeners(token, searches)
                    IN [ i \in 1..Len(ls) |-> cancelSearch(ls[i], requestIdPool) ]
    /\ searchFrame("cancel")
    /\ UNCHANGED <<requestIdPool, searches, timers>>

\* the timer of a listener registered on a cancelled token fires
timeout ==
    /\ op = "none"
    /\ \E i \in timers :
         /\ timers' = timers \ {i}
         /\ sent' = << cancelSearch(searches[i], requestIdPool) >>
    /\ searchFrame("timeout")
    /\ UNCHANGED <<requestIdPool, searches, cancelled>>

\* the promise of $startSearch is fulfilled or rejected
startSearchSettled ==
    /\ op = "none"
    /\ \E i \in 1..Len(searches) :
         /\ ~searches[i].settled
         /\ searches' = [searches EXCEPT ![i].settled = TRUE]
    /\ \E outcome \in {"fulfilled", "rejected"} : searchFrame(outcome)
    /\ sent' = <<>>
    /\ UNCHANGED <<requestIdPool, cancelled, timers>>

NextSearch ==
    \/ findFiles
    \/ cancel
    \/ timeout
    \/ startSearchSettled
    \/ return

SpecSearch == InitSearch /\ [][NextSearch]_vars

\* a workspace constructed from data whose folders may lie inside each other
InitLookup ==
    /\ isLinux \in BOOLEAN
    /\ \E data \in LookupDatas : workspace = fromData(data)
    /\ unconfirmed = 0
    /\ op = "none"
    /\ args = NoArgs
    /\ ret = FALSE
    /\ old = NullWorkspace
    /\ sent = <<>>
    /\ fired = <<>>
    /\ proposed = FALSE
    /\ unexpected = <<>>
    /\ found = {}
    /\ requestIdPool = 0
    /\ searches = <<>>
    /\ cancelled = {}
    /\ timers = {}
    /\ subscribed = FALSE
    /\ mirror = {}

getWorkspaceFolderCall ==
    /\ op = "none"
    /\ \E uri \in LookupQueries, resolveParent \in BOOLEAN :
         /\ found' = getWorkspaceFolder(workspace, uri, resolveParent)
         /\ args' = [NoArgs EXCEPT !.uri = uri, !.resolveParent = resolveParent]
    /\ op' = "getWorkspaceFolder"
    /\ ret' = FALSE
    /\ old' = workspace
    /\ sent' = <<>>
    /\ fired' = <<>>
    /\ unexpected' = <<>>
    /\ UNCHANGED <<isLinux, workspace, unconfirmed, proposed>>
    /\ UNCHANGED <<searchVars, subscribed, mirror>>

NextLookup ==
    \/ getWorkspaceFolderCall
    \/ return

SpecLookup == InitLookup /\ [][NextLookup]_vars

Next ==
    \/ updateWorkspaceFolders
    \/ acceptWorkspaceData
    \/ updateWorkspaceFoldersRejected
    \/ updateWorkspaceFoldersFulfilled
    \/ return

Spec == Init /\ [][Next]_vars

\* the same instance with a listener of onDidChangeWorkspace attached from
\* the start, which holds the folder URIs of the workspace constructed
InitSubscribed ==
    /\ isLinux \in BOOLEAN
    /\ \E data \in Datas(isLinux) : workspace = fromData(data)
    /\ unconfirmed = 0
    /\ op = "none"
    /\ args = NoArgs
    /\ ret = FALSE
    /\ old = NullWorkspace
    /\ sent = <<>>
    /\ fired = <<>>
    /\ proposed = FALSE
    /\ unexpected = <<>>
    /\ found = {}
    /\ requestIdPool = 0
    /\ searches = <<>>
    /\ cancelled = {}
    /\ timers = {}
    /\ subscribed = TRUE
    /\ mirror = identifiers(currentWorkspaceFolders(workspace))

SpecSubscribed == InitSubscribed /\ [][Next]_vars

----------------------------------------------------------------------------
(* Vocabulary of the properties *)

Updated == op = "updateWorkspaceFolders"

Accepted == op = "$acceptWorkspaceData"

\* the local folder list the handler started from
oldFolders == currentWorkspaceFolders(old)

\* the local folder list now
nowFolders == currentWorkspaceFolders(workspace)

sameIdentifier(f, g) == toString(f.uri) = toString(g.uri)

----------------------------------------------------------------------------
(* C1 *)

\* C1: $acceptWorkspaceData never fires a change event whose added and
\* removed lists are both empty; a push that changes no identifier fires
\* nothing.
C1_NoEmptyChangeEvent ==
    Accepted => \A i \in 1..Len(fired) : ~(fired[i].added = <<>> /\ fired[i].removed = <<>>)

----------------------------------------------------------------------------
(* C2 *)

\* C2: right after $acceptWorkspaceData(data), getWorkspaceFolders() is
\* undefined when data is absent and otherwise is exactly data.folders:
\* same uris, names, indices and order, whatever the local list was.
C2_SnapshotReplacesLocalList ==
    Accepted =>
        getWorkspaceFolders(workspace) =
            IF args.data.present THEN [defined |-> TRUE, folders |-> args.data.folders]
            ELSE [defined |-> FALSE, folders |-> <<>>]

\* a push of two folders, not in uri order, over an optimistic local list
C2_Witness ==
    /\ Accepted
    /\ old.present /\ old.workspaceFolders # old.folders
    /\ args.data.present /\ Len(args.data.folders) = 2
    /\ compareWorkspaceFolderByUri(args.data.folders[1], args.data.folders[2]) > 0
    /\ args.data.folders # old.workspaceFolders

----------------------------------------------------------------------------
(* The additions of a call, stated without the method's loop *)

\* positions of workspaceFoldersToAdd that hold a URI no earlier position
\* holds (equality of URIs as on the platform)
firstOccurrences(toAdd) ==
    { i \in 1..Len(toAdd) :
        /\ isUri(toAdd[i].uri)
        /\ \A j \in 1..(i - 1) :
             ~(isUri(toAdd[j].uri) /\ isEqual(toAdd[j].uri, toAdd[i].uri, ~isLinux)) }

\* the entries at these positions, in argument order
dedupedAdditions(toAdd) ==
    LET P == firstOccurrences(toAdd) IN
    [ k \in 1..Cardinality(P) |->
        toAdd[CHOOSE i \in P : Cardinality({ j \in P : j < i }) = k - 1] ]

nameOfAddition(a) == IF a.name # NoName THEN a.name ELSE basenameOrAuthority(a.uri)

\* list is before with deleteCount entries from position index replaced by
\* the additions (uri and name of each addition; the rest untouched)
isProspectiveList(list, before, index, deleteCount, additions) ==
    /\ Len(list) = Len(before) - deleteCount + Len(additions)
    /\ \A i \in 1..index : list[i] = before[i]
    /\ \A j \in 1..Len(additions) :
         /\ list[index + j].uri = additions[j].uri
         /\ list[index + j].name = nameOfAddition(additions[j])
    /\ \A i \in (index + deleteCount + 1)..Len(before) :
         list[i - deleteCount + Len(additions)] = before[i]

----------------------------------------------------------------------------
(* C3 *)

\* C3 as stated: after every updateWorkspaceFolders that returns true, also
\* with no workspace open, getWorkspaceFolders() is the prospective list.
C3_OptimisticListVisibleAlways ==
    (Updated /\ ret) =>
        /\ getWorkspaceFolders(workspace).defined
        /\ isProspectiveList(getWorkspaceFolders(workspace).folders, oldFolders,
                             args.index, args.deleteCount, dedupedAdditions(args.toAdd))

\* C3 amended: after an updateWorkspaceFolders that returns true while a
\* workspace is open, getWorkspaceFolders() is the prospective list; with no
\* workspace open the call may return true and getWorkspaceFolders() stays
\* undefined.
C3_OptimisticListVisible ==
    (Updated /\ ret) =>
        IF old.present
        THEN /\ getWorkspaceFolders(workspace).defined
             /\ isProspectiveList(getWorkspaceFolders(workspace).folders, oldFolders,
                                  args.index, args.deleteCount, dedupedAdditions(args.toAdd))
        ELSE ~getWorkspaceFolders(workspace).defined

\* an accepted edit of an open workspace that keeps the first folder and
\* replaces the second by an addition given twice
C3_Witness ==
    /\ Updated /\ ret /\ old.present
    /\ args.index = 1 /\ args.deleteCount = 1
    /\ Len(args.toAdd) = 2 /\ Len(dedupedAdditions(args.toAdd)) = 1
    /\ Len(nowFolders) = 2

----------------------------------------------------------------------------
(* C4 *)

indicesMatchPositions(list) == \A i \in 1..Len(list) : list[i].index = i - 1

\* C4: when the folder indices equalled the list positions before an
\* accepted updateWorkspaceFolders, they do so after it.
C4_IndexContiguity ==
    (Updated /\ ret /\ old.present /\ indicesMatchPositions(oldFolders)) =>
        indicesMatchPositions(nowFolders)

----------------------------------------------------------------------------
(* C5 *)

\* C5: no two folders of getWorkspaceFolders() have the same identifier.
C5_NoDuplicateIdentifiers ==
    \A i, j \in 1..Len(nowFolders) :
        i # j => ~sameIdentifier(nowFolders[i], nowFolders[j])

----------------------------------------------------------------------------
(* C6 *)

\* C6: getWorkspaceFolder finds every folder of getWorkspaceFolders() by its
\* uri and returns nothing that is not in getWorkspaceFolders().
C6_PathIndexConsistent ==
    workspace.present =>
        /\ \A i \in 1..Len(nowFolders) :
             getWorkspaceFolder(workspace, nowFolders[i].uri, FALSE) = {nowFolders[i]}
        /\ \A u \in Uris :
             getWorkspaceFolder(workspace, u, FALSE) \subseteq Range(nowFolders)

----------------------------------------------------------------------------
(* C7 *)

failsValidation ==
    \/ args.index < 0
    \/ args.deleteCount < 0
    \/ (args.deleteCount = 0 /\ dedupedAdditions(args.toAdd) = <<>>)
    \/ args.index + args.deleteCount > Len(oldFolders)

\* C7: updateWorkspaceFolders with a negative index or deleteCount, with
\* nothing to delete and nothing valid to add, or with index + deleteCount
\* beyond the folder count returns false, leaves the workspace (folder list
\* and path index) as it was, sends nothing and fires nothing.
C7_ValidationRejection ==
    (Updated /\ failsValidation) =>
        /\ ret = FALSE
        /\ workspace = old
        /\ sent = <<>>
        /\ fired = <<>>

\* a call that would add a folder but has a negative deleteCount
C7_Witness ==
    /\ Updated /\ old.present
    /\ args.index >= 0 /\ args.deleteCount < 0
    /\ dedupedAdditions(args.toAdd) # <<>>
    /\ ret = FALSE

----------------------------------------------------------------------------
(* C8 *)

uriAndName(list) == [ i \in 1..Len(list) |-> <<toString(list[i].uri), list[i].name>> ]

\* C8: a call that passes validation returns false exactly when the
\* prospective list has the same (uri, name) pairs as the current list.
C8_NoOpGuardExact ==
    (Updated /\ ~failsValidation) =>
        (ret = FALSE <=>
            uriAndName(newWorkspaceFolders(oldFolders, args.index, args.deleteCount,
                                           dedupedAdditions(args.toAdd)))
              = uriAndName(oldFolders))

----------------------------------------------------------------------------
(* C9 *)

\* C9: the event of $acceptWorkspaceData has as added the folders of the new
\* snapshot whose uri is not in the previous local list, and as removed the
\* folders of the previous local list whose uri is not in the new snapshot.
C9_EventIsIdentifierDiff ==
    Accepted =>
        /\ Len(fired) = 1
        /\ Range(fired[1].added) =
             { f \in Range(nowFolders) : ~\E g \in Range(oldFolders) : sameIdentifier(f, g) }
        /\ Range(fired[1].removed) =
             { g \in Range(oldFolders) : ~\E f \in Range(nowFolders) : sameIdentifier(f, g) }

----------------------------------------------------------------------------
(* C10 *)

\* C10: the add-list sent to the proxy is workspaceFoldersToAdd reduced to
\* the first occurrence of each identifier (identifiers equal as on the
\* platform), in argument order, and these are the entries spliced into the
\* local list, one folder per identifier.
C10_DuplicateAdditionsCollapsed ==
    (Updated /\ ret) =>
        LET additions == dedupedAdditions(args.toAdd) IN
        /\ Len(sent) = 1
        /\ sent[1].folders = additions
        /\ \A i, j \in 1..Len(sent[1].folders) :
             i # j => ~isEqual(sent[1].folders[i].uri, sent[1].folders[j].uri, ~isLinux)
        /\ old.present =>
             /\ Len(nowFolders) = Len(oldFolders) - args.deleteCount + Len(additions)
             /\ \A j \in 1..Len(additions) :
                  /\ nowFolders[args.index + j].uri = additions[j].uri
                  /\ nowFolders[args.index + j].name = nameOfAddition(additions[j])

\* two entries with the same identifier and different names: one folder added
C10_Witness ==
    /\ Updated /\ ret /\ old.present
    /\ Len(args.toAdd) = 2
    /\ isUri(args.toAdd[1].uri) /\ isUri(args.toAdd[2].uri)
    /\ args.toAdd[1].name # args.toAdd[2].name
    /\ Len(sent[1].folders) = 1
    /\ Len(nowFolders) = Len(oldFolders) - args.deleteCount + 1
----------------------------------------------------------------------------
(* C11 *)

Rejection == op = "onUnexpectedError"

\* C11: when the $updateWorkspaceFolders promise is rejected, at whatever
\* time, the workspace and so getWorkspaceFolders() stay as they were (no
\* rollback), nothing is sent or fired, and the error goes to
\* onUnexpectedError only.
C11_RejectionLeavesLocalList ==
    Rejection =>
        /\ workspace = old
        /\ getWorkspaceFolders(workspace) = getWorkspaceFolders(old)
        /\ Len(unexpected) = 1
        /\ sent = <<>>
        /\ fired = <<>>

\* a rejection that arrives while an optimistic list is in place
C11_Witness ==
    /\ Rejection
    /\ workspace.present
    /\ unconfirmed > 0
    /\ workspace.workspaceFolders # workspace.folders
----------------------------------------------------------------------------
(* C12, C13 *)

LookedUp == op = "getWorkspaceFolder"

\* path p is q or lies above q, counted in whole path segments
isAncestorOrEqual(p, q) == isPrefix(segments(p), segments(q))

isProperAncestor(p, q) == isAncestorOrEqual(p, q) /\ segments(p) # segments(q)

\* the folders of list fs that lie deepest among those satisfying encloses
deepest(fs, encloses(_)) ==
    { fs[i] : i \in { j \in 1..Len(fs) :
        /\ encloses(fs[j].uri)
        /\ \A k \in 1..Len(fs) :
             encloses(fs[k].uri) => Len(segments(fs[k].uri)) <= Len(segments(fs[j].uri)) } }

\* C12: getWorkspaceFolder(uri) of a uri that lies strictly inside at least
\* one folder returns the folder with the longest path that is the uri or an
\* ancestor of it in whole segments; a folder whose path is only a prefix of
\* the characters of the uri is never returned.
C12_Containment ==
    (LookedUp /\ ~args.resolveParent) =>
        LET fs == nowFolders
            encloses(p) == isAncestorOrEqual(p, args.uri)
        IN /\ (\E i \in 1..Len(fs) : isProperAncestor(fs[i].uri, args.uri))
                => found = deepest(fs, encloses)
           /\ \A f \in found : encloses(f.uri)

\* the uri lies inside two folders and beside one that shares its first
\* characters
C12_Witness ==
    /\ LookedUp
    /\ ~args.resolveParent
    /\ args.uri = <<47, 97, 47, 98, 47, 97>>
    /\ Len(nowFolders) = 2
    /\ \A i \in 1..2 : isProperAncestor(nowFolders[i].uri, args.uri)
    /\ found = { nowFolders[2] }
    /\ nowFolders[2].uri = <<47, 97, 47, 98>>

\* C13: getWorkspaceFolder(F.uri, true) for a folder F of the workspace
\* never returns F: it returns the deepest other folder above F, or
\* undefined when there is none.
C13_ParentResolution ==
    (LookedUp /\ args.resolveParent
        /\ \E i \in 1..Len(nowFolders) : nowFolders[i].uri = args.uri) =>
        LET above(p) == isProperAncestor(p, args.uri)
        IN /\ \A f \in found : f.uri # args.uri
           /\ found = deepest(nowFolders, above)
----------------------------------------------------------------------------
(* C14, C15 *)

\* C14: getRelativePath(path) with includeWorkspace undefined returns, for
\* a path with an owning folder, the folder's name, '/' and the relative
\* path when getWorkspaceFolders() has more than one folder, and the bare
\* relative path otherwise.
C14_NamePrefixFollowsFolderCount ==
    \A path \in RelativeQueries :
        LET folder == getWorkspaceFolder(workspace, path, TRUE) IN
        folder # {} =>
            LET f == CHOOSE g \in folder : TRUE
                bare == normalize(relative(fsPath(f.uri), path))
            IN getRelativePath(workspace, path, {}) =
                 IF Len(nowFolders) > 1 THEN f.name \o <<47>> \o bare ELSE bare

\* C15: getPath() returns the fsPath of the first folder of
\* getWorkspaceFolders(), and undefined exactly when there is no workspace
\* or that list is empty.
C15_PrimaryPathIsFirstFolder ==
    getPath(workspace) =
        IF ~workspace.present \/ nowFolders = <<>> THEN {}
        ELSE { fsPath(nowFolders[1].uri) }
----------------------------------------------------------------------------
(* C16, C17 *)

startSearches == { i \in 1..Len(sent) : sent[i].method = "$startSearch" }

cancelSearches == { i \in 1..Len(sent) : sent[i].method = "$cancelSearch" }

\* C16: every findFiles call, on whichever instance and whatever was
\* cancelled or settled in between, sends $startSearch with an id greater
\* than the ids of all earlier calls.
C16_RequestIdsIncrease ==
    /\ \A i, j \in 1..Len(searches) :
         i < j => searches[i].requestId < searches[j].requestId
    /\ op = "findFiles" =>
         /\ Len(sent) = 1
         /\ sent[1] = startSearch(searches[Len(searches)].instance,
                                  searches[Len(searches)].requestId)

\* a second call on another instance, after the token of the first was
\* cancelled and the first search settled
C16_Witness ==
    /\ op = "findFiles"
    /\ Len(searches) = 2
    /\ searches[1].instance # searches[2].instance
    /\ searches[1].token \in cancelled
    /\ searches[1].settled

\* C17: every $cancelSearch carries the id of a findFiles call made
\* before, goes to the proxy of that call, and is sent only when the
\* token given to that call has been cancelled; calls without a token get
\* none.
C17_CancelTargetsOwnSearch ==
    \A i \in cancelSearches :
        \E k \in 1..Len(searches) :
            /\ searches[k].requestId = sent[i].requestId
            /\ searches[k].instance = sent[i].instance
            /\ searches[k].token # NoToken
            /\ searches[k].token \in cancelled

\* a token is cancelled while a call with another token and a call without
\* or with this token are registered: only the call with this token is
\* cancelled
C17_Witness ==
    /\ op = "cancel"
    /\ Len(searches) = 2
    /\ searches[1].token # searches[2].token
    /\ Len(sent) = 1
    /\ sent[1].method = "$cancelSearch"
    /\ sent[1].requestId = searches[1].requestId
----------------------------------------------------------------------------
(* C18, C19 *)

\* C18: an event is fired only inside $acceptWorkspaceData, one per call
\* at most, and it is the event of that call: its added folders are
\* folders of the data of the call, its removed folders are folders of the
\* list the call replaced. The emitter delivers inside fire(), so events
\* reach the subscribers in the order of the calls.
C18_EventsFollowAcceptCalls ==
    /\ fired # <<>> => Accepted
    /\ Accepted =>
         /\ Len(fired) <= 1
         /\ \A i \in 1..Len(fired) :
              /\ \A f \in Range(fired[i].added) :
                   \E g \in Range(args.data.folders) : sameIdentifier(f, g)
              /\ \A f \in Range(fired[i].removed) :
                   \E g \in Range(oldFolders) : sameIdentifier(f, g)

\* a push on top of an optimistic list brings one event with an addition
C18_Witness ==
    /\ Accepted
    /\ old.present
    /\ old.workspaceFolders # old.folders
    /\ Len(fired) = 1
    /\ fired[1].added # <<>>

----------------------------------------------------------------------------
(* C20 *)

\* C20: a subscriber that starts from the folder URIs of the workspace the
\* instance was constructed with and applies every event holds, after each
\* $acceptWorkspaceData, exactly the URIs of getWorkspaceFolders(),
\* whatever accepted updateWorkspaceFolders calls came in between.
C20_EventsReconstructFolders ==
    Accepted => mirror = identifiers(nowFolders)

====
